---- MODULE Spec2Model ----
(***************************************************************************)
(* check-es-version: the recursive ECMAScript compatibility checker of     *)
(* src/index.js.  The file holds two versions of the program:              *)
(*   version 1  lines   1-206  (cannotopen set, --target-file)             *)
(*   version 2  lines 208-340  (no cannotopen set, no try around require)  *)
(* Package names are naturals; their order is the order of the names under *)
(* Array.prototype.sort.  The file system is revealed on first access and  *)
(* then stays fixed for the run.                                           *)
(***************************************************************************)
EXTENDS Integers, Sequences, FiniteSets

NumPkgs == 3
MaxDeps == 2
MaxSwallowed == 1

Names == 1..NumPkgs
Root == 1

\* The call stack of the JavaScript engine is finite.  A stack of more than
\* NumPkgs checkDependencies frames holds some package twice, and the file
\* system and the cached states being fixed, that recursion never ends: it
\* goes on until the engine throws RangeError.  The frame at depth
\* RecursionLimit stands for the frames next to the engine's limit: any call
\* made there may throw RangeError, which a catch of the program swallows
\* when the call is inside a try, and which ends the run when it is not.
\* Runs are followed through at most MaxSwallowed swallowed RangeErrors.
RecursionLimit == NumPkgs + 1

VARIABLES
  entry,      \* which program runs: "v1pkg", "v1file", "v2pkg", or "v1walk"
  pc,         \* "main", "walk", "render", "returned", "done", "crashed"
  options,    \* the store: compatible, uncompatible, cannotopen, uncompatibleErrors
  stack,      \* frames of checkDependencies, innermost last
  manifest,   \* file system: package.json of each package
  script,     \* file system: entry script of each package
  reads,      \* fs.readFileSync calls per package name
  parses,     \* acorn.parse calls per package name
  resolves,   \* require.resolve calls per package name
  mreads,     \* require(package.json) calls per package name
  error,      \* the uncaught exception that ended the run, or "none"
  swallowed,  \* RangeErrors of the exhausted stack that a catch has taken
  result,     \* value returned by checkEsCompatible: "none", "true", "false"
  exitCode,   \* process exit status: -1 while running
  order,      \* the members of each Set of the store, in insertion order
  report      \* the lines of the final report, empty until it is printed

vars == <<entry, pc, options, stack, manifest, script, reads, parses,
          resolves, mreads, error, swallowed, result, exitCode, order,
          report>>

----------------------------------------------------------------------------
\* File system

\* Outcomes of resolving, reading and parsing the entry script of a package:
\* "none" no path (require.resolve throws, or package.json has no main),
\* "js_unread" a path readFileSync cannot read, "js_ok" and "js_bad" a script
\* acorn accepts or rejects, "css" a readable stylesheet, which acorn rejects.
ScriptKinds == {"none", "js_unread", "js_ok", "js_bad", "css"}

IsCss(k) == k = "css"
Readable(k) == k \in {"js_ok", "js_bad", "css"}
Parses(k) == k = "js_ok"

NoDup(s) == \A i, j \in 1..Len(s) : s[i] = s[j] => i = j

SeqsUpTo(n) == UNION {[1..k -> Names] : k \in 0..n}

\* The keys of an object are distinct, so a list of keys is a list
\* Object.keys(dependencies).concat(Object.keys(peerDependencies)) exactly
\* when it splits into two lists without repetition.
IsKeyList(s) ==
  \E j \in 0..Len(s) :
    NoDup(SubSeq(s, 1, j)) /\ NoDup(SubSeq(s, j + 1, Len(s)))

\* A readable package.json: keys is
\* Object.keys(dependencies).concat(Object.keys(peerDependencies)), in the
\* order of declaration.
Manifests ==
  {[state |-> "ok", keys |-> s] : s \in {t \in SeqsUpTo(MaxDeps) : IsKeyList(t)}}

\* package.json missing or malformed: require throws.
Unreadable == [state |-> "unreadable", keys |-> <<>>]

Unknown == [state |-> "unknown", keys |-> <<>>]

\* The file system does not change during a run: an access either reveals a
\* part not looked at yet or finds what an earlier access found.
RevealManifest(n, m) ==
  /\ m \in Manifests \cup {Unreadable}
  /\ manifest[n] \in {Unknown, m}

RevealScript(n, k) ==
  /\ k \in ScriptKinds
  /\ script[n] \in {"unknown", k}

----------------------------------------------------------------------------
\* Array.prototype.sort on the list of dependency names.

RECURSIVE Insert(_, _)
Insert(x, s) ==
  IF s = <<>> THEN <<x>>
  ELSE IF x <= Head(s) THEN <<x>> \o s
  ELSE <<Head(s)>> \o Insert(x, Tail(s))

RECURSIVE Sort(_)
Sort(s) == IF s = <<>> THEN <<>> ELSE Insert(Head(s), Sort(Tail(s)))

\* The concatenated key list taken as it is declared, the .sort() left out.
DependenciesUnsorted(m) == m.keys

\* Object.keys(dependencies).concat(Object.keys(peerDependencies)).sort()
Dependencies(m) == Sort(m.keys)

----------------------------------------------------------------------------
\* checkScript.  The result holds the store after the call, the value
\* returned ("true", "false", or "undefined" when the function falls off its
\* end) and the number of readFileSync and acorn.parse calls made.

Version == IF entry = "v2pkg" THEN 2 ELSE 1

\* checkScript of version 1 without uncompatibleErrors.set(packageName,
\* error): the diagnostic of a failed parse is dropped.
CheckScript1NoDiagnostic(packageName, kind, o) ==
  IF packageName \in o.compatible THEN
    [options |-> o, ret |-> "true", read |-> 0, parse |-> 0]
  ELSE IF packageName \in o.uncompatible THEN
    [options |-> o, ret |-> "false", read |-> 0, parse |-> 0]
  ELSE IF packageName \in o.cannotopen THEN
    [options |-> o, ret |-> "undefined", read |-> 0, parse |-> 0]
  ELSE IF ~Readable(kind) THEN
    [options |-> [o EXCEPT !.cannotopen = @ \cup {packageName}],
     ret |-> "false", read |-> 1, parse |-> 0]
  ELSE IF Parses(kind) THEN
    [options |-> [o EXCEPT !.compatible = @ \cup {packageName}],
     ret |-> "true", read |-> 1, parse |-> 1]
  ELSE
    [options |-> [o EXCEPT !.uncompatible = @ \cup {packageName}],
     ret |-> "false", read |-> 1, parse |-> 1]

CheckScript1(packageName, kind, o) ==
  IF packageName \in o.compatible THEN
    [options |-> o, ret |-> "true", read |-> 0, parse |-> 0]
  ELSE IF packageName \in o.uncompatible THEN
    [options |-> o, ret |-> "false", read |-> 0, parse |-> 0]
  ELSE IF packageName \in o.cannotopen THEN
    [options |-> o, ret |-> "undefined", read |-> 0, parse |-> 0]
  ELSE IF ~Readable(kind) THEN
    [options |-> [o EXCEPT !.cannotopen = @ \cup {packageName}],
     ret |-> "false", read |-> 1, parse |-> 0]
  ELSE IF Parses(kind) THEN
    [options |-> [o EXCEPT !.compatible = @ \cup {packageName}],
     ret |-> "true", read |-> 1, parse |-> 1]
  ELSE
    [options |-> [o EXCEPT !.uncompatible = @ \cup {packageName},
                           !.uncompatibleErrors = @ \cup {packageName}],
     ret |-> "false", read |-> 1, parse |-> 1]

CheckScript2(packageName, kind, o) ==
  IF packageName \in o.compatible THEN
    [options |-> o, ret |-> "true", read |-> 0, parse |-> 0]
  ELSE IF packageName \in o.uncompatible THEN
    [options |-> o, ret |-> "false", read |-> 0, parse |-> 0]
  ELSE IF ~Readable(kind) THEN
    [options |-> o, ret |-> "false", read |-> 1, parse |-> 0]
  ELSE IF Parses(kind) THEN
    [options |-> [o EXCEPT !.compatible = @ \cup {packageName}],
     ret |-> "true", read |-> 1, parse |-> 1]
  ELSE
    [options |-> [o EXCEPT !.uncompatible = @ \cup {packageName}],
     ret |-> "false", read |-> 1, parse |-> 1]

CheckScript(packageName, kind, o) ==
  IF Version = 1 THEN CheckScript1(packageName, kind, o)
  ELSE CheckScript2(packageName, kind, o)

----------------------------------------------------------------------------
\* A frame of checkDependencies.  phase "enter": the manifest is not read
\* yet; phase "loop": deps[i] is the next dependency of the forEach.
\* optionsOk is FALSE when the parameter `options` is not the options object.
Frame(p, ind, ok) ==
  [pkg |-> p, deps |-> <<>>, i |-> 1, indent |-> ind, phase |-> "enter",
   optionsOk |-> ok]

Top == stack[Len(stack)]

Crash(e) ==
  /\ pc' = "crashed"
  /\ error' = e
  /\ exitCode' = IF entry = "v1walk" THEN exitCode ELSE 1

Bump(f, n, k) == [f EXCEPT ![n] = @ + k]

\* The three Sets of the store.  A Set iterates its members in the order
\* they were added, and adding a member it has already changes nothing.
Groups == {"compatible", "uncompatible", "cannotopen"}

AsSeq(S) == IF S = {} THEN <<>> ELSE <<CHOOSE x \in S : TRUE>>

\* The insertion orders after a step that adds at most one name to a Set.
Inserted ==
  [g \in Groups |-> order[g] \o AsSeq(options'[g] \ options[g])]

\* const options = { ..., compatible: new Set(), ... }: the store is empty
\* when the run starts.  Entry "v1walk" is checkDependencies of version 1
\* called with the four arguments its signature declares.
Init ==
  /\ entry \in {"v1pkg", "v1file", "v2pkg", "v1walk"}
  /\ pc = IF entry = "v1walk" THEN "walk" ELSE "main"
  /\ options = [compatible |-> {}, uncompatible |-> {}, cannotopen |-> {},
                uncompatibleErrors |-> {}]
  /\ stack = IF entry = "v1walk" THEN <<Frame(Root, 0, TRUE)>> ELSE <<>>
  /\ manifest = [n \in Names |-> Unknown]
  /\ script = [n \in Names |-> "unknown"]
  /\ reads = [n \in Names |-> 0]
  /\ parses = [n \in Names |-> 0]
  /\ resolves = [n \in Names |-> 0]
  /\ mreads = [n \in Names |-> 0]
  /\ error = "none"
  /\ swallowed = 0
  /\ result = "none"
  /\ exitCode = -1
  /\ order = [g \in Groups |-> <<>>]
  /\ report = <<>>

\* The target-file branch without its else: the run goes on into
\* checkEsCompatible, which requires the root manifest.
CheckTargetFileNoElse ==
  /\ pc = "main" /\ entry = "v1file"
  /\ \E k \in ScriptKinds \ {"none"} :
       /\ RevealScript(Root, k)
       /\ LET r == CheckScript1(Root, k, options) IN
            /\ options' = r.options
            /\ reads' = Bump(reads, Root, r.read)
            /\ parses' = Bump(parses, Root, r.parse)
            /\ script' = [script EXCEPT ![Root] = k]
  /\ mreads' = Bump(mreads, Root, 1)
  /\ pc' = "returned"
  /\ UNCHANGED <<entry, stack, manifest, resolves, error, swallowed, result,
                 exitCode, report>>
  /\ order' = Inserted

\* if (targetFile) { checkScript(targetFile, targetFile, options, 0); }
CheckTargetFile ==
  /\ pc = "main" /\ entry = "v1file"
  /\ \E k \in ScriptKinds \ {"none"} :
       /\ RevealScript(Root, k)
       /\ LET r == CheckScript1(Root, k, options) IN
            /\ options' = r.options
            /\ reads' = Bump(reads, Root, r.read)
            /\ parses' = Bump(parses, Root, r.parse)
            /\ script' = [script EXCEPT ![Root] = k]
  /\ pc' = "returned"
  /\ UNCHANGED <<entry, stack, manifest, resolves, mreads, error, swallowed,
                 result, exitCode, report>>
  /\ order' = Inserted

\* checkEsCompatible up to its call of checkDependencies: the root manifest
\* is required outside any try; the root's own script is classified; then
\* checkDependencies(packagePath, options, indent + 1) is called.  Version 1
\* declares checkDependencies(packageName, packagePath, options, indent), so
\* there the parameter `options` receives indent + 1.
CheckEsCompatible ==
  /\ pc = "main" /\ entry \in {"v1pkg", "v2pkg"}
  /\ \E m \in Manifests \cup {Unreadable} :
       /\ RevealManifest(Root, m)
       /\ manifest' = [manifest EXCEPT ![Root] = m]
       /\ mreads' = Bump(mreads, Root, 1)
       /\ IF m.state = "unreadable" THEN
            /\ Crash("MODULE_NOT_FOUND")
            /\ UNCHANGED <<options, stack, script, reads, parses>>
          ELSE
            \E k \in ScriptKinds :
              /\ RevealScript(Root, k)
              /\ LET r == CheckScript(Root, k, options) IN
                   /\ options' = r.options
                   /\ reads' = Bump(reads, Root, r.read)
                   /\ parses' = Bump(parses, Root, r.parse)
                   /\ script' = [script EXCEPT ![Root] = k]
              /\ stack' = <<Frame(Root, 1, Version = 2)>>
              /\ pc' = "walk"
              /\ UNCHANGED <<error, exitCode>>
  /\ UNCHANGED <<entry, resolves, swallowed, result, report>>
  /\ order' = Inserted

\* Where control goes when a checkDependencies frame returns and leaves
\* stack s: to the caller's forEach, or to the rest of checkEsCompatible.
AfterReturn(s) ==
  IF s # <<>> THEN "walk"
  ELSE IF entry = "v1walk" THEN "returned"
  ELSE "render"

Pop == SubSeq(stack, 1, Len(stack) - 1)

\* checkDependencies of version 1, up to the forEach.  With `options` bound
\* to a number (the call of checkEsCompatible), resolve(packagePath, ...)
\* throws inside the try, and in the catch options.cannotopen is undefined:
\* options.cannotopen.add throws a TypeError nothing catches.
CheckDependencies1 ==
  /\ pc = "walk" /\ Version = 1
  /\ Top.phase = "enter"
  /\ IF ~Top.optionsOk THEN
       /\ Crash("TypeError")
       /\ UNCHANGED <<options, stack, manifest, mreads>>
     ELSE
       \E m \in Manifests \cup {Unreadable} :
         /\ RevealManifest(Top.pkg, m)
         /\ manifest' = [manifest EXCEPT ![Top.pkg] = m]
         /\ mreads' = Bump(mreads, Top.pkg, 1)
         /\ IF m.state = "unreadable" THEN
              /\ options' = [options EXCEPT !.cannotopen = @ \cup {Top.pkg}]
              /\ stack' = Pop
              /\ pc' = AfterReturn(Pop)
            ELSE
              /\ stack' = [stack EXCEPT ![Len(stack)] =
                             [@ EXCEPT !.deps = Dependencies(m),
                                       !.phase = "loop"]]
              /\ pc' = "walk"
              /\ UNCHANGED options
         /\ UNCHANGED <<error, exitCode>>
  /\ UNCHANGED <<entry, script, reads, parses, resolves, swallowed, result,
                 report>>
  /\ order' = Inserted

\* checkDependencies of version 2, up to the forEach: require is not in a
\* try, an unreadable manifest ends the run.
CheckDependencies2 ==
  /\ pc = "walk" /\ Version = 2
  /\ Top.phase = "enter"
  /\ \E m \in Manifests \cup {Unreadable} :
       /\ RevealManifest(Top.pkg, m)
       /\ manifest' = [manifest EXCEPT ![Top.pkg] = m]
       /\ mreads' = Bump(mreads, Top.pkg, 1)
       /\ IF m.state = "unreadable" THEN
            /\ Crash("MODULE_NOT_FOUND")
            /\ UNCHANGED stack
          ELSE
            /\ stack' = [stack EXCEPT ![Len(stack)] =
                           [@ EXCEPT !.deps = Dependencies(m),
                                     !.phase = "loop"]]
            /\ pc' = "walk"
            /\ UNCHANGED <<error, exitCode>>
  /\ UNCHANGED <<entry, options, script, reads, parses, resolves, swallowed,
                 result, report, order>>

\* The stack after the forEach callback has handled deps[i] and got `ret`
\* from checkScript: the loop index moves on, and a value that is not true
\* makes the recursive call at indent + 1.
Moved == [stack EXCEPT ![Len(stack)] = [@ EXCEPT !.i = @ + 1]]

\* The recursive call made whatever checkScript returned.
DescendAlways(dep, ret) == Append(Moved, Frame(dep, Top.indent + 1, TRUE))

\* The recursive call made at the caller's own indent.
DescendSameIndent(dep, ret) ==
  IF ret = "true" THEN Moved
  ELSE Append(Moved, Frame(dep, Top.indent, TRUE))

\* The recursive call made only for the value false (=== false in place of
\* the negation), so not for a missing return value.
DescendOnFalse(dep, ret) ==
  IF ret = "false" THEN Append(Moved, Frame(dep, Top.indent + 1, TRUE))
  ELSE Moved

Descend(dep, ret) ==
  IF ret = "true" THEN Moved
  ELSE Append(Moved, Frame(dep, Top.indent + 1, TRUE))

\* What a RangeError of the exhausted stack does to one iteration of the
\* forEach: "normal" none is thrown; "uncaught" it is thrown outside every
\* try; "resolve", "read", "parse" it is thrown inside require.resolve,
\* fs.readFileSync or acorn.parse, whose catch takes it for the failure of
\* that call.
Faults == {"normal", "uncaught", "resolve", "read", "parse"}

AtLimit == Len(stack) = RecursionLimit

\* 1 when fault f is a RangeError that a catch of checkScript or of the
\* forEach callback swallows.
Fault(f) == IF f \in {"resolve", "read", "parse"} THEN 1 ELSE 0

\* The script outcome checkScript sees under fault f.
Effective(k, f) ==
  IF f = "resolve" THEN "none"
  ELSE IF f = "read" THEN "js_unread"
  ELSE IF f = "parse" THEN "js_bad"
  ELSE k

\* One iteration of the forEach of version 1: a failed require.resolve gives
\* a null path; checkScript; checkDependencies on a result that is not true.
\* The require of a callee beyond the engine's limit is inside the callee's
\* try: its catch records cannotopen and the callee returns.
ForEachDep1 ==
  /\ pc = "walk" /\ Version = 1
  /\ Top.phase = "loop" /\ Top.i <= Len(Top.deps)
  /\ LET dep == Top.deps[Top.i] IN
       \E k \in ScriptKinds, f \in Faults :
         /\ RevealScript(dep, k)
         /\ f = "normal" \/ AtLimit
         /\ f \in {"resolve", "read", "parse"} => swallowed < MaxSwallowed
         /\ f = "resolve" => k # "none"
         /\ f = "read" => (CheckScript1(dep, k, options).read = 1 /\ Readable(k))
         /\ f = "parse" => (CheckScript1(dep, k, options).parse = 1 /\ Parses(k))
         /\ script' = [script EXCEPT ![dep] = k]
         /\ resolves' = Bump(resolves, dep, 1)
         /\ IF f = "uncaught" THEN
              /\ Crash("RangeError")
              /\ UNCHANGED <<options, reads, parses, stack, swallowed>>
            ELSE
              LET r == CheckScript1(dep, Effective(k, f), options)
                  s == Descend(dep, r.ret)
              IN
                /\ reads' = Bump(reads, dep, r.read)
                /\ parses' = Bump(parses, dep, r.parse)
                /\ IF Len(s) > RecursionLimit THEN
                     \E caught \in {c \in BOOLEAN :
                                       c => Fault(f) + swallowed < MaxSwallowed} :
                       IF caught THEN
                         /\ options' = [r.options EXCEPT
                                          !.cannotopen = @ \cup {dep}]
                         /\ stack' = Moved
                         /\ swallowed' = swallowed + Fault(f) + 1
                         /\ UNCHANGED <<pc, error, exitCode>>
                       ELSE
                         /\ Crash("RangeError")
                         /\ options' = r.options
                         /\ swallowed' = swallowed + Fault(f)
                         /\ UNCHANGED stack
                   ELSE
                     /\ swallowed' = swallowed + Fault(f)
                     /\ options' = r.options
                     /\ stack' = s
                     /\ UNCHANGED <<pc, error, exitCode>>
  /\ UNCHANGED <<entry, manifest, mreads, result, report>>
  /\ order' = Inserted

\* One iteration of the forEach of version 2: require.resolve is not in a
\* try, a dependency that does not resolve ends the run; nor is the require
\* of the callee's manifest.
ForEachDep2 ==
  /\ pc = "walk" /\ Version = 2
  /\ Top.phase = "loop" /\ Top.i <= Len(Top.deps)
  /\ LET dep == Top.deps[Top.i] IN
       \E k \in ScriptKinds, f \in Faults \ {"resolve"} :
         /\ RevealScript(dep, k)
         /\ f = "normal" \/ AtLimit
         /\ f \in {"resolve", "read", "parse"} => swallowed < MaxSwallowed
         /\ f = "read" => (CheckScript2(dep, k, options).read = 1 /\ Readable(k))
         /\ f = "parse" => (CheckScript2(dep, k, options).parse = 1 /\ Parses(k))
         /\ script' = [script EXCEPT ![dep] = k]
         /\ resolves' = Bump(resolves, dep, 1)
         /\ IF f = "uncaught" \/ k = "none" THEN
              /\ Crash(IF f = "uncaught" THEN "RangeError"
                       ELSE "MODULE_NOT_FOUND")
              /\ UNCHANGED <<options, reads, parses, stack, swallowed>>
            ELSE
              LET r == CheckScript2(dep, Effective(k, f), options)
                  s == Descend(dep, r.ret)
              IN
                /\ options' = r.options
                /\ reads' = Bump(reads, dep, r.read)
                /\ parses' = Bump(parses, dep, r.parse)
                /\ swallowed' = swallowed + Fault(f)
                /\ IF Len(s) > RecursionLimit THEN
                     /\ Crash("RangeError")
                     /\ UNCHANGED stack
                   ELSE
                     /\ stack' = s
                     /\ UNCHANGED <<pc, error, exitCode>>
  /\ UNCHANGED <<entry, manifest, mreads, result, report>>
  /\ order' = Inserted

\* The forEach is over: checkDependencies returns to its caller.
CheckDependenciesReturn ==
  /\ pc = "walk"
  /\ Top.phase = "loop" /\ Top.i > Len(Top.deps)
  /\ stack' = Pop
  /\ pc' = AfterReturn(Pop)
  /\ UNCHANGED <<entry, options, manifest, script, reads, parses, resolves,
                 mreads, error, swallowed, result, exitCode, report, order>>

\* The final report of checkEsCompatible as the sequence of its lines: a
\* heading or the "No uncompatible packages." line has name 0, a listing line
\* has the kind of its Set and the name it lists.
Line(kind, n) == [kind |-> kind, name |-> n]

\* set.forEach((pkg) => output(pkg)): one line per member, in insertion
\* order.
Listing(kind, s) == [k \in 1..Len(s) |-> Line(kind, s[k])]

IncompatiblePart(o, ord) ==
  IF o.uncompatible = {}
    THEN <<Line("No uncompatible packages.", 0)>>
    ELSE <<Line("All uncompatible packages are:", 0)>>
         \o Listing("uncompatible", ord.uncompatible)

\* The listings with the Incompatible part printed first.
ReportIncompatibleFirst(o, ord) ==
  IncompatiblePart(o, ord)
  \o <<Line("All compatible packages are:", 0)>>
  \o Listing("compatible", ord.compatible)
  \o (IF Version = 1 THEN Listing("cannotopen", ord.cannotopen) ELSE <<>>)

\* Version 1 ends with the listing of cannotopen; version 2 has no such Set.
Report(o, ord) ==
  <<Line("All compatible packages are:", 0)>>
  \o Listing("compatible", ord.compatible)
  \o IncompatiblePart(o, ord)
  \o (IF Version = 1 THEN Listing("cannotopen", ord.cannotopen) ELSE <<>>)

\* The rest of checkEsCompatible: the listings are printed and
\* (options.uncompatible.size === 0) is returned.
AggregateOfCompatible(o) == IF o.compatible # {} THEN "true" ELSE "false"

Aggregate(o) == IF o.uncompatible = {} THEN "true" ELSE "false"

CheckEsCompatibleReturn ==
  /\ pc = "render"
  /\ result' = Aggregate(options)
  /\ pc' = "returned"
  /\ UNCHANGED <<entry, options, stack, manifest, script, reads, parses,
                 resolves, mreads, error, swallowed, exitCode, order>>
  /\ report' = Report(options, order)

\* The top-level statement has run to its end; the value of the call is not
\* used and process.exitCode is never set: node exits with status 0.  An
\* uncaught exception exits with status 1 (Crash).
ExitStatus(res) == 0

ProcessExit ==
  /\ pc = "returned" /\ entry # "v1walk"
  /\ pc' = "done"
  /\ exitCode' = ExitStatus(result)
  /\ UNCHANGED <<entry, options, stack, manifest, script, reads, parses,
                 resolves, mreads, error, swallowed, result, report, order>>

Next ==
  \/ CheckTargetFile
  \/ CheckEsCompatible
  \/ CheckDependencies1
  \/ CheckDependencies2
  \/ ForEachDep1
  \/ ForEachDep2
  \/ CheckDependenciesReturn
  \/ CheckEsCompatibleReturn
  \/ ProcessExit

Spec == Init /\ [][Next]_vars

----------------------------------------------------------------------------
\* Vocabulary of the properties

Range(s) == {s[i] : i \in 1..Len(s)}

\* Package a has a readable manifest that declares b.
Declares(a, b) == manifest[a].state = "ok" /\ b \in Range(manifest[a].keys)

Classified(n) ==
  n \in options.compatible \cup options.uncompatible \cup options.cannotopen

\* The classification states a name is in.
StateOf(n) ==
  {st \in {"Compatible", "Incompatible", "Unreadable"} :
     \/ st = "Compatible" /\ n \in options.compatible
     \/ st = "Incompatible" /\ n \in options.uncompatible
     \/ st = "Unreadable" /\ n \in options.cannotopen}

\* The engine has thrown RangeError: the recursion exhausted the call stack.
Overflowed == swallowed > 0 \/ error = "RangeError"

\* The run is over without an uncaught exception.
Completed == pc = "done" \/ (entry = "v1walk" /\ pc = "returned")

Ended == Completed \/ pc = "crashed"

PackageRun == entry \in {"v1pkg", "v2pkg"}

----------------------------------------------------------------------------
\* C1: when the manifests hold a cycle (a declares b and b declares a), the
\* walk does not recurse without bound, and once it is over a and b both
\* have a classification state.
C1_CycleTerminates ==
  \A a, b \in Names :
    (a # b /\ Declares(a, b) /\ Declares(b, a)) =>
      /\ ~Overflowed
      /\ Completed => (Classified(a) /\ Classified(b))

\* A run over a cycle that ended in the engine's RangeError.
C1_UnboundedRecursion ==
  /\ error = "RangeError"
  /\ \E a, b \in Names : a # b /\ Declares(a, b) /\ Declares(b, a)

\* C2: the entry script of a package name is read at most once and parsed
\* at most once in a run.
C2_ReadParseOnce ==
  \A n \in Names : reads[n] <= 1 /\ parses[n] <= 1

C5_AggregateIffNoIncompatible ==
  result # "none" => (result = "true" <=> options.uncompatible = {})

\* checkEsCompatible returned false with a package in the compatible set.
C5_Witness ==
  /\ result = "false"
  /\ options.compatible # {}
  /\ options.uncompatible # {}

\* C6: a run from the command line that leaves a package in the
\* uncompatible set does not end with the success status 0.
C6_ExitStatusReflectsResult ==
  (entry # "v1walk" /\ pc = "done" /\ options.uncompatible # {}) =>
    exitCode # 0

\* C7: a manifest that cannot be read or a dependency that cannot be
\* resolved does not end the walk with an uncaught exception.
C7_FailuresDoNotAbort ==
  (pc = "crashed" /\ stack # <<>>) => error # "MODULE_NOT_FOUND"

\* C8: a run of checkEsCompatible on a root with a readable manifest gets
\* to the rendering, and when the rendering starts the root and every
\* dependency the root's manifest declares have a classification state.
C8_ClassifyWalkRender ==
  /\ (PackageRun /\ Ended /\ manifest[Root].state = "ok") => result # "none"
  /\ pc = "render" =>
       /\ Classified(Root)
       /\ \A d \in Names : Declares(Root, d) => Classified(d)

\* C9: a declared dependency without a resolvable entry script and without
\* a readable manifest is, when the run is over, in cannotopen and in
\* neither compatible nor uncompatible.  (A manifest the run never looked
\* at is unreadable in some file system that gives this same run.)
C9_UnreadableFallback ==
  \A d \in Names :
    ( /\ Ended
      /\ \E a \in Names : Declares(a, d)
      /\ script[d] = "none"
      /\ manifest[d].state # "ok" ) =>
        /\ d \in options.cannotopen
        /\ d \notin options.compatible \cup options.uncompatible

\* C10: a script path with a stylesheet suffix is neither read nor parsed.
C10_NonSourceNotRead ==
  \A n \in Names : IsCss(script[n]) => (reads[n] = 0 /\ parses[n] = 0)

\* C11: in the target-file mode no manifest is required, no dependency is
\* resolved, no checkDependencies frame exists, and once the run is over the
\* store holds a state for the file (name Root) and for nothing else.
C11_TargetFileOnly ==
  entry = "v1file" =>
    /\ stack = <<>>
    /\ \A n \in Names : mreads[n] = 0 /\ resolves[n] = 0
    /\ \A n \in Names \ {Root} : ~Classified(n)
    /\ Completed => Classified(Root)

\* A target-file run that is over, with the file read and classified.
C11_Witness ==
  /\ entry = "v1file" /\ pc = "done"
  /\ reads[Root] = 1 /\ Classified(Root)

\* The number of occurrences of x in the sequence s.
Count(x, s) == Cardinality({k \in DOMAIN s : s[k] = x})

\* s and t hold the same names the same number of times, in any order.
SameBag(s, t) == \A x \in Names : Count(x, s) = Count(x, t)

IsSorted(s) == \A k \in 1..(Len(s) - 1) : s[k] <= s[k + 1]

\* C12: the list a checkDependencies call iterates is the ascending
\* arrangement of the names its manifest declares, whatever the order of
\* declaration, and the forEach takes it from the first name to the last.
\* An ascending arrangement of a bag of names is unique, so two manifests
\* that declare the same names in different orders give the walker the same
\* list, hence the same run, the same sets and the same listings.
C12_SortedOrder ==
  \A d \in DOMAIN stack :
    stack[d].phase = "loop" =>
      /\ manifest[stack[d].pkg].state = "ok"
      /\ SameBag(stack[d].deps, manifest[stack[d].pkg].keys)
      /\ IsSorted(stack[d].deps)
      /\ stack[d].i \in 1..(Len(stack[d].deps) + 1)

\* A manifest declaring two distinct names in descending order whose forEach
\* has processed the smaller name first and is now past the larger one.
C12_Witness ==
  /\ pc = "walk" /\ stack # <<>>
  /\ Top.phase = "loop"
  /\ Len(manifest[Top.pkg].keys) = 2
  /\ manifest[Top.pkg].keys[1] > manifest[Top.pkg].keys[2]
  /\ Top.i = 3
  /\ resolves[Top.deps[1]] > 0 /\ resolves[Top.deps[2]] > 0

\* The number of times the manifest of n was fetched from the file system:
\* require caches a module it has loaded, so of the calls for a readable
\* manifest only the first one reads the file, while a require that failed
\* caches nothing and goes to the file system on every call.
ManifestReads(n) ==
  IF manifest[n].state = "ok"
    THEN (IF mreads[n] > 0 THEN 1 ELSE 0)
    ELSE mreads[n]

C14_CachedNameSkipsAllWork ==
  [][\A n \in Names :
       Classified(n) =>
         /\ resolves'[n] = resolves[n]
         /\ reads'[n] = reads[n]
         /\ parses'[n] = parses[n]]_vars

\* C15: the walker never enters checkDependencies for a dependency that is
\* Compatible, met for the first time or again: no frame other than the
\* root's belongs to a Compatible name, and the manifest of a Compatible
\* dependency is never required.
C15_CompatibleNotDescended ==
  /\ \A d \in 2..Len(stack) : stack[d].pkg \notin options.compatible
  /\ \A n \in Names \ {Root} :
       n \in options.compatible => mreads[n] = 0 /\ manifest[n] = Unknown

\* A finished walk that met a Compatible dependency twice, once fresh and
\* once cached, and left its manifest alone.
C15_Witness ==
  /\ Completed
  /\ \E n \in Names \ {Root} :
       /\ n \in options.compatible
       /\ resolves[n] >= 2 /\ reads[n] = 1
       /\ mreads[n] = 0

\* C16: a forEach step that classifies a name without a state as Unreadable
\* (the name enters cannotopen) calls checkDependencies for that name: the
\* step pushes a frame of the name, not yet entered, whose indent is the
\* indent of the classifying frame plus one.  At the recursion limit the
\* call is made as well, but the engine's stack is exhausted inside it.
C16_UnreadableDescendsOneDeeper ==
  [][(/\ pc = "walk" /\ stack # <<>>
      /\ Top.phase = "loop" /\ Top.i <= Len(Top.deps)
      /\ ~AtLimit
      /\ ~Classified(Top.deps[Top.i])
      /\ Top.deps[Top.i] \in options'.cannotopen)
     => (/\ Len(stack') = Len(stack) + 1
         /\ stack'[Len(stack')].pkg = Top.deps[Top.i]
         /\ stack'[Len(stack')].phase = "enter"
         /\ stack'[Len(stack')].indent = Top.indent + 1
         /\ stack'[Len(stack)].indent = Top.indent)]_vars

\* The fallback frame of a dependency of a dependency: the name has just
\* been classified Unreadable for the first time and its manifest is about
\* to be required, one level below the frame that classified it.
C16_Witness ==
  /\ pc = "walk" /\ Len(stack) >= 3
  /\ Top.phase = "enter"
  /\ Top.pkg \in options.cannotopen
  /\ resolves[Top.pkg] = 1 /\ mreads[Top.pkg] = 0
  /\ Top.indent = stack[Len(stack) - 1].indent + 1

\* C17: a checkDependencies call that does not get its manifest (the frame
\* entered does not go on to its forEach) adds the package's own name to
\* cannotopen, changes nothing else in the store, and returns to its caller
\* without an exception; for the root's frame as for any deeper one.
C17_ManifestFailureRecorded ==
  [][(/\ pc = "walk" /\ stack # <<>>
      /\ Top.phase = "enter"
      /\ ~(Len(stack') = Len(stack) /\ stack'[Len(stack)].phase = "loop"))
     => (/\ pc' # "crashed"
         /\ options' = [options EXCEPT !.cannotopen = @ \cup {Top.pkg}]
         /\ stack' = Pop)]_vars

Rank(kind) ==
  CASE kind = "All compatible packages are:" -> 1
    [] kind = "compatible" -> 2
    [] kind = "No uncompatible packages." -> 3
    [] kind = "All uncompatible packages are:" -> 3
    [] kind = "uncompatible" -> 4
    [] kind = "cannotopen" -> 5

LinesOf(kind, n) == {k \in DOMAIN report : report[k] = Line(kind, n)}

C19_WitnessNone ==
  /\ pc = "done" /\ report # <<>>
  /\ options.uncompatible = {}
  /\ \E k \in DOMAIN report : report[k].kind = "No uncompatible packages."

\* C20: a forEach step calls checkDependencies for its dependency exactly
\* when checkScript did not return true for it, that is when the name is
\* not in the compatible set after the step, whether its state was recorded
\* by this step or by an earlier one; so every occurrence of a name that is
\* Incompatible or Unreadable is descended into.  (Steps at the recursion
\* limit and steps ended by an exception aside.)
C20_DescendsIffNotTrue ==
  [][(/\ pc = "walk" /\ stack # <<>>
      /\ Top.phase = "loop" /\ Top.i <= Len(Top.deps)
      /\ ~AtLimit
      /\ pc' = "walk")
     => /\ Len(stack') \in {Len(stack), Len(stack) + 1}
        /\ (Len(stack') = Len(stack) + 1) <=>
             (Top.deps[Top.i] \notin options'.compatible)
        /\ Len(stack') = Len(stack) + 1 =>
             /\ stack'[Len(stack')].pkg = Top.deps[Top.i]
             /\ stack'[Len(stack')].phase = "enter"]_vars

\* A finished walk that met an Incompatible dependency and an Unreadable
\* one twice each and entered checkDependencies for them at both occurrences.
C20_Witness ==
  /\ Completed
  /\ \E a, b \in Names \ {Root} :
       /\ a \in options.uncompatible /\ a \notin options.cannotopen
       /\ resolves[a] = 2 /\ mreads[a] = 2 /\ reads[a] = 1
       /\ b \in options.cannotopen /\ b \notin options.uncompatible
       /\ resolves[b] = 2 /\ mreads[b] = 2

====
